---------------------------- MODULE Spec2Model ----------------------------
(***************************************************************************)
(* A model of the perception-action bridge of avla-robotics/leopenpi:      *)
(*                                                                         *)
(*   - the continuous-capture VideoHandler (the spec's FrameBuffer) of     *)
(*     src/so101_pi/utils/video_handler.py: a foreground caller (start,    *)
(*     stop, get_frames), capture threads and cleanup threads sharing one  *)
(*     lock, one frame list and one device handle;                         *)
(*   - the on-demand VideoHandler (the spec's capture_one) of              *)
(*     src/src/utils/video_handler.py;                                     *)
(*   - the RobotWrapper (the spec's JointSpaceMapper) of                   *)
(*     src/src/utils/robot_wrapper.py and the start-of-run home command of *)
(*     src/leopenpi/main.py;                                               *)
(*   - main of src/leopenpi/main.py and src/src/main.py, from its          *)
(*     robot.connect() to its exit;                                        *)
(*   - the limit tracking of the JointLimitsCalibrator of                  *)
(*     src/scripts/calibrate.py.                                           *)
(*                                                                         *)
(* Frames are numbered in the order in which they are appended to the      *)
(* buffer.  Joint positions are integers counted in half units (1.0 is     *)
(* written 2), which keeps `action * total_range * 0.25` exact for the     *)
(* limits and actions the model draws; a position read from the hardware  *)
(* is rounded as numpy rounds a float stored as float32.                   *)
(***************************************************************************)
EXTENDS Integers, Sequences, FiniteSets, TLC

VARIABLES
    \* ---- VideoHandler (so101_pi/utils/video_handler.py) ----
    frame_buffer,     \* self.frame_buffer: the list of frames, oldest first
    capture_thread,   \* self.capture_thread: a thread id, 0 for None
    cleanup_thread,   \* self.cleanup_thread: a thread id, 0 for None
    capture_active,   \* self.capture_active
    cap,              \* self.cap: a device handle id, 0 for None
    lock,             \* self._lock: the set of its holders (empty when free)
    dev,              \* every cv2.VideoCapture object made so far -> its state
    tpc,              \* every thread -> its position in its loop
    th,               \* every capture thread -> the handle its read was called on
    fg,               \* the foreground caller's position
    fg_n,             \* num_frames of the get_frames call in progress
    ret,              \* the outcome of the last completed foreground call
    produced,         \* number of frames appended so far
    since_start,      \* number of frames appended since the last start
    pixels,           \* every frame object made so far -> its content
    \* ---- the on-demand VideoHandler (src/utils/video_handler.py) ----
    camera,           \* the Camera it was made for, and its debug flag
    reads,            \* number of cap.read() calls made on its device
    shot,             \* the outcome of the last capture_frame call
    \* ---- RobotEnvironment (leopenpi/robot_environment.py) ----
    env,              \* its prompt, the configured cameras, its _video_handlers
    observation,      \* the outcome of the last get_observation call
    \* ---- RobotWrapper (src/utils/robot_wrapper.py), main (leopenpi/main.py) ----
    config,           \* the RobotConfiguration and start_home
    is_connected,     \* RobotWrapper.is_connected
    hw,               \* the hardware: joint key -> position (robot.get_observation())
    homed,            \* main has passed its start-of-run home block
    call,             \* the outcome of the last robot call
    \* ---- main (leopenpi/main.py, src/main.py) ----
    main,             \* its position, its policy settings, what it has called
    \* ---- JointLimitsCalibrator (scripts/calibrate.py) ----
    config_data,      \* self.config_data['robot']: the joints and the gripper
    limits_updated,   \* self.limits_updated
    current_observation   \* self.current_observation, <<>> for None

fbvars == <<frame_buffer, capture_thread, cleanup_thread, capture_active, cap,
            lock, dev, tpc, th, fg, fg_n, ret, produced, since_start, pixels>>
cfvars == <<camera, reads, shot, env, observation>>
rwvars == <<config, is_connected, hw, homed, call>>
mnvars == <<main>>
clvars == <<config_data, limits_updated, current_observation>>
vars == <<fbvars, cfvars, rwvars, mnvars, clvars>>

-----------------------------------------------------------------------------
(* Bounds *)

\* start_continuous_capture calls that reach cv2.VideoCapture(...)
MaxStarts == 2
\* frames the device delivers over a run
MaxFrames == 3
\* largest num_frames passed to get_frames
MaxN == 2
\* VideoHandler(cleanup_threshold=...), 30 by default
cleanup_threshold == 1
\* largest position, in half units, the arm reaches during a calibration
MaxPos == 3

ThreadIds == 1..(2 * MaxStarts)
Handles == 1..MaxStarts
\* the k-th successful start spawns capture thread 2k-1 and cleanup thread 2k
IsCapture(t) == t % 2 = 1
IsCleanup(t) == t % 2 = 0
\* the foreground caller's identity as a lock holder (thread ids are 1, 2, ...)
Foreground == 0

Min(a, b) == IF a < b THEN a ELSE b
Max(a, b) == IF a > b THEN a ELSE b

-----------------------------------------------------------------------------
(* Python list slicing *)

\* s[i:] for a Python list s: a negative i counts from the end, and both ends
\* saturate.  Note -0 = 0, so s[-0:] is the whole list.
PySliceFrom(s, i) ==
    LET n == Len(s)
        start == IF i < 0 THEN Max(n + i, 0) ELSE Min(i, n)
    IN  SubSeq(s, start + 1, n)

-----------------------------------------------------------------------------
(* numpy float32 *)

\* a float stored into an array of dtype float32 (lines 33, 39): the nearest
\* number with a significand of 24 bits, ties to even.  Positions are counted
\* in half units, a power of two, so the rounding is that of the integer.
Float32Bits == 24
RECURSIVE TwoTo(_)
TwoTo(n) == IF n = 0 THEN 1 ELSE 2 * TwoTo(n - 1)
\* the first integer whose neighbours are not all float32 numbers
Float32Limit == TwoTo(Float32Bits)
\* the spacing of the float32 numbers around a >= 0
RECURSIVE Ulp(_, _)
Ulp(a, u) == IF a < Float32Limit * u THEN u ELSE Ulp(a, 2 * u)
float32(x) ==
    LET a == IF x < 0 THEN -x ELSE x
        u == Ulp(a, 1)
        q == a \div u
        r == a % u
        n == IF 2 * r < u THEN q
             ELSE IF 2 * r > u THEN q + 1
             ELSE IF q % 2 = 0 THEN q ELSE q + 1
    IN  IF x < 0 THEN -(n * u) ELSE n * u

-----------------------------------------------------------------------------
(* VideoHandler: initial state (__init__) *)

NoRet == [op |-> "none", status |-> "none", n |-> 0, frames |-> <<>>]

InitFB ==
    /\ frame_buffer = <<>>
    /\ capture_thread = 0
    /\ cleanup_thread = 0
    /\ capture_active = FALSE
    /\ cap = 0
    /\ lock = {}
    /\ dev = [h \in Handles |-> "unused"]
    /\ tpc = [t \in ThreadIds |-> "none"]
    /\ th = [t \in ThreadIds |-> 0]
    /\ fg = "idle"
    /\ fg_n = 0
    /\ ret = NoRet
    /\ produced = 0
    /\ since_start = 0
    /\ pixels = [f \in 1..MaxFrames |-> "none"]

Dead == {"done", "crashed"}
\* frames read from the device and not yet appended
InFlight == {t \in ThreadIds : IsCapture(t) /\ tpc[t] \in {"transform", "cs"}}
Opened == {h \in Handles : dev[h] # "unused"}

-----------------------------------------------------------------------------
(* VideoHandler.start_continuous_capture *)

\* a faulty start without the early return of lines 49-50
StartAgain ==
    /\ fg = "idle"
    /\ capture_active
    /\ Cardinality(Opened) < MaxStarts
    /\ cap' = Cardinality(Opened) + 1
    /\ dev' = [dev EXCEPT ![Cardinality(Opened) + 1] = "open"]
    /\ fg' = "start_warm"
    /\ UNCHANGED <<frame_buffer, capture_thread, cleanup_thread, capture_active,
                   lock, tpc, th, fg_n, ret, produced, since_start>>
    /\ UNCHANGED <<pixels, cfvars, rwvars, mnvars, clvars>>

\* line 49-50: already capturing, return
StartNoop ==
    /\ fg = "idle"
    /\ capture_active
    /\ ret' = [op |-> "start", status |-> "noop", n |-> 0, frames |-> <<>>]
    /\ UNCHANGED <<frame_buffer, capture_thread, cleanup_thread, capture_active,
                   cap, lock, dev, tpc, th, fg, fg_n, produced, since_start>>
    /\ UNCHANGED <<pixels, cfvars, rwvars, mnvars, clvars>>

\* a faulty start that does not test isOpened()
StartOpenUnchecked ==
    /\ fg = "idle"
    /\ ~capture_active
    /\ Cardinality(Opened) < MaxStarts
    /\ LET h == Cardinality(Opened) + 1 IN
        /\ cap' = h
        /\ \E state \in {"open", "closed"} : dev' = [dev EXCEPT ![h] = state]
        /\ fg' = "start_warm"
    /\ UNCHANGED <<frame_buffer, capture_thread, cleanup_thread, capture_active,
                   lock, tpc, th, fg_n, ret, produced, since_start>>
    /\ UNCHANGED <<pixels, cfvars, rwvars, mnvars, clvars>>

\* lines 52-57: open the device; raise if it is not opened, else warm up
StartOpen ==
    /\ fg = "idle"
    /\ ~capture_active
    /\ Cardinality(Opened) < MaxStarts
    /\ LET h == Cardinality(Opened) + 1 IN
        /\ cap' = h
        /\ \/ /\ dev' = [dev EXCEPT ![h] = "open"]
              /\ fg' = "start_warm"
              /\ ret' = ret
           \/ /\ dev' = [dev EXCEPT ![h] = "closed"]
              /\ fg' = "idle"
              /\ ret' = [op |-> "start", status |-> "error", n |-> 0, frames |-> <<>>]
    /\ UNCHANGED <<frame_buffer, capture_thread, cleanup_thread, capture_active,
                   lock, tpc, th, fg_n, produced, since_start>>
    /\ UNCHANGED <<pixels, cfvars, rwvars, mnvars, clvars>>

\* lines 59-65: set the flag and start both threads
StartActivate ==
    /\ fg = "start_warm"
    /\ capture_active' = TRUE
    /\ capture_thread' = 2 * cap - 1
    /\ cleanup_thread' = 2 * cap
    /\ tpc' = [tpc EXCEPT ![2 * cap - 1] = "check", ![2 * cap] = "check"]
    /\ since_start' = 0
    /\ fg' = "idle"
    /\ ret' = [op |-> "start", status |-> "ok", n |-> 0, frames |-> <<>>]
    /\ UNCHANGED <<frame_buffer, cap, lock, dev, th, fg_n, produced>>
    /\ UNCHANGED <<pixels, cfvars, rwvars, mnvars, clvars>>

-----------------------------------------------------------------------------
(* VideoHandler.stop_continuous_capture (also run by __del__) *)

\* a faulty stop without the early return of lines 71-72
StopNoopProceeds ==
    /\ fg = "idle"
    /\ ~capture_active
    /\ capture_active' = FALSE
    /\ fg' = "stop_join_capture"
    /\ UNCHANGED <<frame_buffer, capture_thread, cleanup_thread, cap, lock, dev,
                   tpc, th, fg_n, ret, produced, since_start>>
    /\ UNCHANGED <<pixels, cfvars, rwvars, mnvars, clvars>>

\* lines 71-72: not capturing, return
StopNoop ==
    /\ fg = "idle"
    /\ ~capture_active
    /\ ret' = [op |-> "stop", status |-> "noop", n |-> 0, frames |-> <<>>]
    /\ UNCHANGED <<frame_buffer, capture_thread, cleanup_thread, capture_active,
                   cap, lock, dev, tpc, th, fg, fg_n, produced, since_start>>
    /\ UNCHANGED <<pixels, cfvars, rwvars, mnvars, clvars>>

\* line 74: clear the flag
StopBegin ==
    /\ fg = "idle"
    /\ capture_active
    /\ capture_active' = FALSE
    /\ fg' = "stop_join_capture"
    /\ UNCHANGED <<frame_buffer, capture_thread, cleanup_thread, cap, lock, dev,
                   tpc, th, fg_n, ret, produced, since_start>>
    /\ UNCHANGED <<pixels, cfvars, rwvars, mnvars, clvars>>

\* a faulty join of the capture thread that has no timeout
StopJoinCaptureForever ==
    /\ fg = "stop_join_capture"
    /\ \/ capture_thread = 0
       \/ /\ capture_thread # 0
          /\ tpc[capture_thread] \in Dead
    /\ fg' = "stop_join_cleanup"
    /\ UNCHANGED <<frame_buffer, capture_thread, cleanup_thread, capture_active,
                   cap, lock, dev, tpc, th, fg_n, ret, produced, since_start>>
    /\ UNCHANGED <<pixels, cfvars, rwvars, mnvars, clvars>>

\* lines 75-76: capture_thread.join(timeout=4.0).  The join returns when the
\* thread has ended, or on its timeout; every step of the capture loop but the
\* blocking device read is short, so only a thread inside the read outlasts it.
StopJoinCapture ==
    /\ fg = "stop_join_capture"
    /\ \/ capture_thread = 0
       \/ /\ capture_thread # 0
          /\ tpc[capture_thread] \in Dead \cup {"reading"}
    /\ fg' = "stop_join_cleanup"
    /\ UNCHANGED <<frame_buffer, capture_thread, cleanup_thread, capture_active,
                   cap, lock, dev, tpc, th, fg_n, ret, produced, since_start>>
    /\ UNCHANGED <<pixels, cfvars, rwvars, mnvars, clvars>>

\* lines 77-78: cleanup_thread.join(timeout=4.0).  The cleanup loop sleeps 2.0 s
\* and holds the lock for one list operation, so it ends within the timeout.
StopJoinCleanup ==
    /\ fg = "stop_join_cleanup"
    /\ \/ cleanup_thread = 0
       \/ /\ cleanup_thread # 0
          /\ tpc[cleanup_thread] \in Dead
    /\ fg' = "stop_release"
    /\ UNCHANGED <<frame_buffer, capture_thread, cleanup_thread, capture_active,
                   cap, lock, dev, tpc, th, fg_n, ret, produced, since_start>>
    /\ UNCHANGED <<pixels, cfvars, rwvars, mnvars, clvars>>

\* lines 80-81: self.cap.release()
StopRelease ==
    /\ fg = "stop_release"
    /\ dev' = IF cap # 0 THEN [dev EXCEPT ![cap] = "released"] ELSE dev
    /\ fg' = "stop_clear"
    /\ UNCHANGED <<frame_buffer, capture_thread, cleanup_thread, capture_active,
                   cap, lock, tpc, th, fg_n, ret, produced, since_start>>
    /\ UNCHANGED <<pixels, cfvars, rwvars, mnvars, clvars>>

\* line 82: self.cap = None, and return
StopClear ==
    /\ fg = "stop_clear"
    /\ cap' = 0
    /\ fg' = "idle"
    /\ ret' = [op |-> "stop", status |-> "ok", n |-> 0, frames |-> <<>>]
    /\ UNCHANGED <<frame_buffer, capture_thread, cleanup_thread, capture_active,
                   lock, dev, tpc, th, fg_n, produced, since_start>>
    /\ UNCHANGED <<pixels, cfvars, rwvars, mnvars, clvars>>

-----------------------------------------------------------------------------
(* VideoHandler.get_frames *)

\* a faulty get_frames that returns the oldest frames, buf[:num_frames]
get_frames_oldest(buf, num_frames) ==
    IF Len(buf) < num_frames THEN <<>> ELSE SubSeq(buf, 1, num_frames)

\* lines 95-99, the body run under the lock
get_frames(buf, num_frames) ==
    IF Len(buf) < num_frames THEN <<>> ELSE PySliceFrom(buf, -num_frames)

\* the call is made
GetCall(n) ==
    /\ fg = "idle"
    /\ fg' = "get_wait"
    /\ fg_n' = n
    /\ UNCHANGED <<frame_buffer, capture_thread, cleanup_thread, capture_active,
                   cap, lock, dev, tpc, th, ret, produced, since_start>>
    /\ UNCHANGED <<pixels, cfvars, rwvars, mnvars, clvars>>

\* a faulty lock that is taken without waiting for its holder
AcquireWithoutWaiting(t) ==
    lock' = lock \cup {t}

\* the lock a thread takes at a `with self._lock:`
Acquire(t) ==
    /\ lock = {}
    /\ lock' = {t}

\* line 94: with self._lock
GetAcquire ==
    /\ fg = "get_wait"
    /\ Acquire(Foreground)
    /\ fg' = "get_cs"
    /\ UNCHANGED <<frame_buffer, capture_thread, cleanup_thread, capture_active,
                   cap, dev, tpc, th, fg_n, ret, produced, since_start>>
    /\ UNCHANGED <<pixels, cfvars, rwvars, mnvars, clvars>>

\* lines 95-99: compute the result, leave the with block, return
GetReturn ==
    /\ fg = "get_cs"
    /\ ret' = [op |-> "get_frames", status |-> "ok", n |-> fg_n,
               frames |-> get_frames(frame_buffer, fg_n)]
    /\ lock' = lock \ {Foreground}
    /\ fg' = "idle"
    /\ fg_n' = 0
    /\ UNCHANGED <<frame_buffer, capture_thread, cleanup_thread, capture_active,
                   cap, dev, tpc, th, produced, since_start>>
    /\ UNCHANGED <<pixels, cfvars, rwvars, mnvars, clvars>>

-----------------------------------------------------------------------------
(* VideoHandler._capture_loop, one instance per capture thread t *)

\* line 134: while self.capture_active (the branch of line 157-159, a 10 ms
\* sleep when the frame interval has not elapsed, returns here unchanged)
CaptureCheck(t) ==
    /\ IsCapture(t)
    /\ tpc[t] = "check"
    /\ tpc' = [tpc EXCEPT ![t] = IF capture_active THEN "at_read" ELSE "done"]
    /\ UNCHANGED <<frame_buffer, capture_thread, cleanup_thread, capture_active,
                   cap, lock, dev, th, fg, fg_n, ret, produced, since_start>>
    /\ UNCHANGED <<pixels, cfvars, rwvars, mnvars, clvars>>

\* a faulty capture loop that takes the lock before its device read
CaptureReadCallUnderLock(t) ==
    /\ IsCapture(t)
    /\ tpc[t] = "at_read"
    /\ cap # 0
    /\ lock = {}
    /\ lock' = {t}
    /\ tpc' = [tpc EXCEPT ![t] = "reading"]
    /\ th' = [th EXCEPT ![t] = cap]
    /\ UNCHANGED <<frame_buffer, capture_thread, cleanup_thread, capture_active,
                   cap, dev, fg, fg_n, ret, produced, since_start>>
    /\ UNCHANGED <<pixels, cfvars, rwvars, mnvars, clvars>>

\* line 139: self.cap.read() is called: self.cap is evaluated (None has no
\* read: the thread ends with an AttributeError) and the read blocks
CaptureReadCall(t) ==
    /\ IsCapture(t)
    /\ tpc[t] = "at_read"
    /\ IF cap = 0
       THEN /\ tpc' = [tpc EXCEPT ![t] = "crashed"]
            /\ th' = th
       ELSE /\ tpc' = [tpc EXCEPT ![t] = "reading"]
            /\ th' = [th EXCEPT ![t] = cap]
    /\ UNCHANGED <<frame_buffer, capture_thread, cleanup_thread, capture_active,
                   cap, lock, dev, fg, fg_n, ret, produced, since_start>>
    /\ UNCHANGED <<pixels, cfvars, rwvars, mnvars, clvars>>

\* line 139-140: the read returns; ret is False on a device that is not open
\* or on a failed read
CaptureReadReturn(t) ==
    /\ IsCapture(t)
    /\ tpc[t] = "reading"
    /\ \/ /\ dev[th[t]] = "open"
          /\ produced + Cardinality(InFlight) < MaxFrames
          /\ tpc' = [tpc EXCEPT ![t] = "transform"]
       \/ /\ tpc' = [tpc EXCEPT ![t] = "failed"]
    /\ th' = [th EXCEPT ![t] = 0]
    /\ UNCHANGED <<frame_buffer, capture_thread, cleanup_thread, capture_active,
                   cap, lock, dev, fg, fg_n, ret, produced, since_start>>
    /\ UNCHANGED <<pixels, cfvars, rwvars, mnvars, clvars>>

\* a faulty loop that leaves at a failed read (break for continue)
CaptureBreak(t) ==
    /\ IsCapture(t)
    /\ tpc[t] = "failed"
    /\ tpc' = [tpc EXCEPT ![t] = "done"]
    /\ UNCHANGED <<frame_buffer, capture_thread, cleanup_thread, capture_active,
                   cap, lock, dev, th, fg, fg_n, ret, produced, since_start>>
    /\ UNCHANGED <<pixels, cfvars, rwvars, mnvars, clvars>>

\* lines 141-142: the failed read is printed and the loop continues at line 134
CaptureContinue(t) ==
    /\ IsCapture(t)
    /\ tpc[t] = "failed"
    /\ tpc' = [tpc EXCEPT ![t] = "check"]
    /\ UNCHANGED <<frame_buffer, capture_thread, cleanup_thread, capture_active,
                   cap, lock, dev, th, fg, fg_n, ret, produced, since_start>>
    /\ UNCHANGED <<pixels, cfvars, rwvars, mnvars, clvars>>

\* lines 144-152: the transform pipeline, then with self._lock
CaptureAcquire(t) ==
    /\ IsCapture(t)
    /\ tpc[t] = "transform"
    /\ Acquire(t)
    /\ tpc' = [tpc EXCEPT ![t] = "cs"]
    /\ UNCHANGED <<frame_buffer, capture_thread, cleanup_thread, capture_active,
                   cap, dev, th, fg, fg_n, ret, produced, since_start>>
    /\ UNCHANGED <<pixels, cfvars, rwvars, mnvars, clvars>>

\* a faulty append that inserts at the front
append_front(buf, frame) == <<frame>> \o buf

\* line 153: self.frame_buffer.append(processed_frame)
append(buf, frame) == Append(buf, frame)

\* lines 153-156: append the frame object the transform made, leave the with block
CaptureAppend(t) ==
    /\ IsCapture(t)
    /\ tpc[t] = "cs"
    /\ frame_buffer' = append(frame_buffer, produced + 1)
    /\ produced' = produced + 1
    /\ since_start' = since_start + 1
    /\ lock' = lock \ {t}
    /\ tpc' = [tpc EXCEPT ![t] = "check"]
    /\ pixels' = [pixels EXCEPT ![produced + 1] = "captured"]
    /\ UNCHANGED <<capture_thread, cleanup_thread, capture_active, cap, dev, th,
                   fg, fg_n, ret>>
    /\ UNCHANGED <<cfvars, rwvars, mnvars, clvars>>

-----------------------------------------------------------------------------
(* VideoHandler._cleanup_loop, one instance per cleanup thread t *)

\* line 165: while self.capture_active
CleanupCheck(t) ==
    /\ IsCleanup(t)
    /\ tpc[t] = "check"
    /\ tpc' = [tpc EXCEPT ![t] = IF capture_active THEN "sleep" ELSE "done"]
    /\ UNCHANGED <<frame_buffer, capture_thread, cleanup_thread, capture_active,
                   cap, lock, dev, th, fg, fg_n, ret, produced, since_start>>
    /\ UNCHANGED <<pixels, cfvars, rwvars, mnvars, clvars>>

\* lines 166-168: time.sleep(2.0), then with self._lock
CleanupAcquire(t) ==
    /\ IsCleanup(t)
    /\ tpc[t] = "sleep"
    /\ Acquire(t)
    /\ tpc' = [tpc EXCEPT ![t] = "cs"]
    /\ UNCHANGED <<frame_buffer, capture_thread, cleanup_thread, capture_active,
                   cap, dev, th, fg, fg_n, ret, produced, since_start>>
    /\ UNCHANGED <<pixels, cfvars, rwvars, mnvars, clvars>>

\* a faulty pass that keeps the oldest frames, buf[:cleanup_threshold]
cleanup_keep_oldest(buf) ==
    IF Len(buf) > cleanup_threshold THEN SubSeq(buf, 1, cleanup_threshold) ELSE buf

\* lines 169-172: one pass over the buffer
cleanup(buf) ==
    LET current_count == Len(buf) IN
    IF current_count > cleanup_threshold
    THEN LET frames_to_delete == current_count - cleanup_threshold
         IN  PySliceFrom(buf, frames_to_delete)
    ELSE buf

\* lines 169-172: the pass, leave the with block
CleanupPass(t) ==
    /\ IsCleanup(t)
    /\ tpc[t] = "cs"
    /\ frame_buffer' = cleanup(frame_buffer)
    /\ lock' = lock \ {t}
    /\ tpc' = [tpc EXCEPT ![t] = "check"]
    /\ UNCHANGED <<capture_thread, cleanup_thread, capture_active, cap, dev, th,
                   fg, fg_n, ret, produced, since_start>>
    /\ UNCHANGED <<pixels, cfvars, rwvars, mnvars, clvars>>

-----------------------------------------------------------------------------
(* The VideoHandler with its threads *)

NextFB ==
    \/ StartNoop
    \/ StartOpen
    \/ StartActivate
    \/ StopNoop
    \/ StopBegin
    \/ StopJoinCapture
    \/ StopJoinCleanup
    \/ StopRelease
    \/ StopClear
    \/ \E n \in 0..MaxN : GetCall(n)
    \/ GetAcquire
    \/ GetReturn
    \/ \E t \in ThreadIds : CaptureCheck(t)
    \/ \E t \in ThreadIds : CaptureReadCall(t)
    \/ \E t \in ThreadIds : CaptureReadReturn(t)
    \/ \E t \in ThreadIds : CaptureContinue(t)
    \/ \E t \in ThreadIds : CaptureAcquire(t)
    \/ \E t \in ThreadIds : CaptureAppend(t)
    \/ \E t \in ThreadIds : CleanupCheck(t)
    \/ \E t \in ThreadIds : CleanupAcquire(t)
    \/ \E t \in ThreadIds : CleanupPass(t)


-----------------------------------------------------------------------------
(* The caller of get_frames *)

\* writes the caller makes into returned frames over a run
MaxWrites == 1

\* the caller writes into the i-th frame of the list get_frames returned to it
\* (line 99 returns a slice: a new list of the buffer's own frame objects)
CallerWrites(i) ==
    /\ fg = "idle"
    /\ ret.op = "get_frames"
    /\ i \in DOMAIN ret.frames
    /\ Cardinality({f \in DOMAIN pixels : pixels[f] = "overwritten"}) < MaxWrites
    /\ pixels[ret.frames[i]] = "captured"
    /\ pixels' = [pixels EXCEPT ![ret.frames[i]] = "overwritten"]
    /\ UNCHANGED <<frame_buffer, capture_thread, cleanup_thread, capture_active,
                   cap, lock, dev, tpc, th, fg, fg_n, ret, produced, since_start>>
    /\ UNCHANGED <<cfvars, rwvars, mnvars, clvars>>

NextFBCaller ==
    \/ NextFB
    \/ \E i \in 1..MaxN : CallerWrites(i)

-----------------------------------------------------------------------------
(* The on-demand VideoHandler: src/utils/video_handler.py *)

\* capture_frame calls over a run
MaxShots == 4
\* the frames the device may deliver
RawFrames == 1..3

\* Camera(name, index, flipped, minX, maxX, minY, maxY): a crop box is <<>> for
\* coordinates left None
Camera(flipped, box) == [flipped |-> flipped, box |-> box]
Cameras == { Camera(f, b) : f \in BOOLEAN, b \in {<<>>, <<10, 200, 20, 100>>} }

\* what cap.read() gives: (False, None), or (True, frame) with a frame as the
\* device delivers it; a frame that may be None is <<>> or <<frame>>
NoFrame == [ret |-> FALSE, frame |-> <<>>]
Raw(id) ==
    [id |-> id, channels |-> <<"B", "G", "R">>, axes |-> <<"H", "W", "C">>,
     mirrored |-> FALSE, box |-> <<>>, size |-> "native"]
Reads == {NoFrame} \cup { [ret |-> TRUE, frame |-> <<Raw(id)>>] : id \in RawFrames }

\* the steps of the transform
Reverse(seq) == [i \in DOMAIN seq |-> seq[Len(seq) + 1 - i]]
cvtColor_BGR2RGB(frame) == [frame EXCEPT !.channels = Reverse(frame.channels)]
flip(frame) == [frame EXCEPT !.mirrored = ~frame.mirrored]
crop(frame, box) == [frame EXCEPT !.box = box]
resize_with_pad(frame) == [frame EXCEPT !.size = "target"]
transpose(frame, perm) == [frame EXCEPT !.axes = [i \in DOMAIN perm |-> frame.axes[perm[i] + 1]]]

\* line 30: the crop is used when all four coordinates are given
crop_enabled(cam) == cam.box # <<>>

\* lines 15-46: the state after a construction that did not raise: the device
\* is open and three frames were read and discarded
WarmupReads == 3
NoShot == [status |-> "none", frame |-> <<>>, debug_saved |-> FALSE]
\* no RobotEnvironment is in use
NoObservation == [status |-> "none", obs |-> <<>>]
EnvAtRest ==
    /\ env = [prompt |-> "", cameras |-> <<>>, video_handlers |-> <<>>]
    /\ observation = NoObservation

InitCF ==
    /\ camera \in { [cam |-> c, debug |-> d] : c \in Cameras, d \in BOOLEAN }
    /\ reads = WarmupReads
    /\ shot = NoShot
    /\ EnvAtRest

\* a faulty capture_frame that returns an empty frame when the read fails
capture_frame_fallback(cam, read) ==
    [status |-> "ok",
     frame |-> IF read.ret THEN <<transpose(resize_with_pad(cvtColor_BGR2RGB(read.frame[1])),
                                           <<2, 0, 1>>)>>
               ELSE <<>>,
     debug_saved |-> cam.debug]

\* lines 55-79: the result of capture_frame for what the read gave
capture_frame(cam, read) ==
    IF ~read.ret
    THEN [status |-> "RuntimeError", frame |-> <<>>, debug_saved |-> FALSE]
    ELSE LET frame_rgb == cvtColor_BGR2RGB(read.frame[1])
             flipped == IF cam.cam.flipped THEN flip(frame_rgb) ELSE frame_rgb
             cropped == IF crop_enabled(cam.cam) THEN crop(flipped, cam.cam.box) ELSE flipped
             img_array == resize_with_pad(cropped)
             processed_frame == transpose(img_array, <<2, 0, 1>>)
         IN  [status |-> "ok", frame |-> <<processed_frame>>, debug_saved |-> cam.debug]

\* lines 48-79, the whole call
CaptureFrame(read) ==
    /\ reads < WarmupReads + MaxShots
    /\ reads' = reads + 1
    /\ shot' = capture_frame(camera, read)
    /\ UNCHANGED <<camera, env, observation>>
    /\ UNCHANGED <<fbvars, rwvars, mnvars, clvars>>

NextCF == \E read \in Reads : CaptureFrame(read)

\* no on-demand VideoHandler is in use
HandlerAtRest ==
    /\ camera = [cam |-> Camera(FALSE, <<>>), debug |-> FALSE]
    /\ reads = 0
    /\ shot = NoShot
CameraAtRest == HandlerAtRest /\ EnvAtRest

-----------------------------------------------------------------------------
(* Configuration: so101_pi/utils/configurations.py *)

\* Joint(name, min_limit, max_limit, home=None); home is <<>> for None
Joint(name, min_limit, max_limit, home) ==
    [name |-> name, min_limit |-> min_limit, max_limit |-> max_limit, home |-> home]

\* RobotConfiguration.__post_init__: the defaults, and all_joints
DefaultJoints ==
    << Joint("shoulder_pan", -2, 2, <<>>),
       Joint("shoulder_lift", -2, 2, <<>>),
       Joint("elbow_flex", -2, 2, <<>>),
       Joint("wrist_flex", -2, 2, <<>>),
       Joint("wrist_roll", -2, 2, <<>>) >>
DefaultGripper == Joint("gripper", -2, 2, <<>>)

\* a faulty __post_init__ that puts the gripper first in all_joints
RobotConfiguration_gripper_first(joints, gripper) ==
    LET js == IF joints = <<>> THEN DefaultJoints ELSE joints
        g == IF gripper = <<>> THEN DefaultGripper ELSE gripper[1]
    IN  [joints |-> js, gripper |-> g, all_joints |-> <<g>> \o js]

RobotConfiguration(joints, gripper) ==
    LET js == IF joints = <<>> THEN DefaultJoints ELSE joints
        g == IF gripper = <<>> THEN DefaultGripper ELSE gripper[1]
    IN  [joints |-> js, gripper |-> g, all_joints |-> js \o <<g>>]

\* configurations a YAML file can give (limits as calibrated, homes as set by
\* scripts/set_home.py; nothing relates a home to the limits)
CalibratedJoints ==
    << Joint("shoulder_pan", -4, 4, <<0>>),
       Joint("shoulder_lift", 0, 8, <<10>>),
       Joint("elbow_flex", -4, 4, <<2>>),
       Joint("wrist_flex", -4, 4, <<-1>>),
       Joint("wrist_roll", -8, 8, <<3>>) >>
PartlyHomedJoints ==
    << Joint("shoulder_pan", -4, 4, <<0>>),
       Joint("shoulder_lift", 0, 8, <<4>>),
       Joint("elbow_flex", -4, 4, <<>>),
       Joint("wrist_flex", -4, 4, <<-1>>),
       Joint("wrist_roll", -8, 8, <<3>>) >>
RobotConfigurations ==
    { RobotConfiguration(<<>>, <<>>),
      RobotConfiguration(CalibratedJoints, <<Joint("gripper", 0, 4, <<1>>)>>),
      RobotConfiguration(PartlyHomedJoints, <<>>) }

\* joints a YAML file can describe: draccus builds Joint and RobotConfiguration
\* from whatever names and limits the file gives
AnyJoints ==
    { Joint(name, min_limit, max_limit, <<>>) :
        name \in {"wrist_roll", "gripper"}, min_limit \in {-2, 2}, max_limit \in {-2, 2} }
AnyJointLists ==
    {<<>>} \cup { <<j>> : j \in AnyJoints } \cup { <<j, k>> : j, k \in AnyJoints }

\* the hardware's key of a joint: f"{joint.name}.pos"
Key(name) == <<name, "pos">>

Range(seq) == {seq[i] : i \in DOMAIN seq}

\* joint orderings of other lengths a YAML file can give: two joints in another
\* order, and six
ShortJoints ==
    << Joint("wrist_roll", -8, 8, <<>>),
       Joint("shoulder_pan", -4, 4, <<>>) >>
LongJoints == DefaultJoints \o << Joint("wrist_yaw", -2, 2, <<>>) >>
JointOrderings ==
    { RobotConfiguration(<<>>, <<>>),
      RobotConfiguration(ShortJoints, <<>>),
      RobotConfiguration(LongJoints, <<>>) }

\* the motors of the arm in the order of their ids, and one the
\* configurations do not name
Motors == << "shoulder_pan", "shoulder_lift", "elbow_flex", "wrist_flex",
             "wrist_roll", "gripper", "wrist_yaw", "aux" >>
Rank(k) == CHOOSE i \in DOMAIN Motors : Key(Motors[i]) = k

-----------------------------------------------------------------------------
(* The hardware interface (lerobot SO101Follower), an external collaborator *)

\* positions the arm may be in when the run starts, the same for every joint;
\* 3 is outside the limits of some joints
StartPositions == {0, 1, 3}

\* the keys robot.get_observation() reports: every joint of the configuration,
\* or all of them but the gripper's
Observations(cfg) ==
    LET all == {Key(j.name) : j \in Range(cfg.all_joints)} IN
    UNION { [ks -> {p}] : ks \in {all, all \ {Key(cfg.gripper.name)}}, p \in StartPositions }

\* what robot.get_observation() may report for a joint ordering: every key, one
\* more, or all but the first joint's or the gripper's; positions that differ
\* from motor to motor, small or with more than 24 significant bits
RawPositions ==
    { [k \in {Key(Motors[i]) : i \in DOMAIN Motors} |-> Rank(k) - 3],
      [k \in {Key(Motors[i]) : i \in DOMAIN Motors} |-> 2 - Rank(k)],
      [k \in {Key(Motors[i]) : i \in DOMAIN Motors} |-> TwoTo(Float32Bits + 1) + Rank(k)] }
RawMaps(cfg) ==
    LET all == {Key(j.name) : j \in Range(cfg.all_joints)} IN
    { [k \in ks |-> raw[k]] :
        ks \in { all, all \cup {Key("aux")}, all \ {Key(cfg.joints[1].name)},
                 all \ {Key(cfg.gripper.name)} },
        raw \in RawPositions }

\* robot.send_action(goal): the arm moves to the goal
Moved(pos, goal) ==
    [k \in DOMAIN pos |-> IF k \in DOMAIN goal THEN goal[k] ELSE pos[k]]

-----------------------------------------------------------------------------
(* RobotWrapper: src/utils/robot_wrapper.py *)

NoCall == [op |-> "none", status |-> "none", action |-> <<>>, current |-> <<>>,
           sent |-> <<>>]

InitRW ==
    /\ config \in { [robot |-> r, start_home |-> b] :
                        r \in RobotConfigurations, b \in BOOLEAN }
    /\ is_connected = FALSE
    /\ hw \in Observations(config.robot)
    /\ homed = FALSE
    /\ call = NoCall

\* lines 16-24; robot.connect() (line 22) may raise, and then the flag is not set
Connect ==
    /\ IF is_connected
       THEN /\ is_connected' = is_connected
            /\ call' = [NoCall EXCEPT !.op = "connect", !.status = "noop"]
       ELSE \/ /\ is_connected' = TRUE
               /\ call' = [NoCall EXCEPT !.op = "connect", !.status = "ok"]
            \/ /\ is_connected' = FALSE
               /\ call' = [NoCall EXCEPT !.op = "connect", !.status = "error"]
    /\ UNCHANGED <<config, hw, homed>>
    /\ UNCHANGED <<fbvars, cfvars, mnvars, clvars>>

\* a faulty disconnect that leaves the flag set
DisconnectKeepsFlag ==
    /\ call' = [NoCall EXCEPT !.op = "disconnect",
                              !.status = IF is_connected THEN "ok" ELSE "noop"]
    /\ UNCHANGED <<config, is_connected, hw, homed>>
    /\ UNCHANGED <<fbvars, cfvars, mnvars, clvars>>

\* lines 96-103
Disconnect ==
    /\ IF is_connected
       THEN /\ is_connected' = FALSE
            /\ call' = [NoCall EXCEPT !.op = "disconnect", !.status = "ok"]
       ELSE /\ is_connected' = is_connected
            /\ call' = [NoCall EXCEPT !.op = "disconnect", !.status = "noop"]
    /\ UNCHANGED <<config, hw, homed>>
    /\ UNCHANGED <<fbvars, cfvars, mnvars, clvars>>

\* a faulty read that reports 0 for a joint the map does not hold
get_observation_defaulting(joints, obs) ==
    [error |-> "none",
     value |-> [i \in DOMAIN joints |->
                  IF Key(joints[i].name) \in DOMAIN obs
                  THEN float32(obs[Key(joints[i].name)]) ELSE 0]]

\* lines 32-40: the vector of the joints' positions, or the error raised
get_observation(joints, obs) ==
    IF \E i \in DOMAIN joints : Key(joints[i].name) \notin DOMAIN obs
    THEN [error |-> "ValueError", value |-> <<>>]
    ELSE [error |-> "none",
          value |-> [i \in DOMAIN joints |-> float32(obs[Key(joints[i].name)])]]

\* lines 27-40 as called at lines 44 and 48: the outcome of a read of joints
Observe(op, joints) ==
    LET seen == get_observation(joints, hw) IN
    /\ call' = IF ~is_connected
               THEN [NoCall EXCEPT !.op = op, !.status = "RuntimeError"]
               ELSE IF seen.error # "none"
               THEN [NoCall EXCEPT !.op = op, !.status = seen.error]
               ELSE [NoCall EXCEPT !.op = op, !.status = "ok", !.current = seen.value]
    /\ UNCHANGED <<config, is_connected, hw, homed>>
    /\ UNCHANGED <<fbvars, cfvars, mnvars, clvars>>

\* lines 42-44
GetJointObservation == Observe("get_joint_observation", config.robot.joints)

\* lines 46-48
GetGripperObservation == Observe("get_gripper_observation", <<config.robot.gripper>>)

\* a faulty clip that forgets the lower limit
clip_upper_only(a, a_min, a_max) == Min(a, a_max)

\* np.clip(a, a_min, a_max) = minimum(maximum(a, a_min), a_max)
clip(a, a_min, a_max) == Min(Max(a, a_min), a_max)

\* a faulty delta that takes the action from [0, 2] and not from [-1, 1]
delta_movement_shifted(action_val, total_range) ==
    ((action_val + 1) * total_range) \div 4

\* line 76: action_val * total_range * 0.25 (exact: the ranges drawn are
\* multiples of 4)
InverseGain == 4
delta_movement(action_val, total_range) == (action_val * total_range) \div InverseGain

\* a faulty goal that is not clipped
unclipped_value(joint, current_pos, action_val) ==
    current_pos + delta_movement(action_val, joint.max_limit - joint.min_limit)

\* lines 72-78, for one joint
clipped_value(joint, current_pos, action_val) ==
    LET total_range == joint.max_limit - joint.min_limit
        new_position == current_pos + delta_movement(action_val, total_range)
    IN  clip(new_position, joint.min_limit, joint.max_limit)

\* lines 70-88: the goal positions of every joint of all_joints
goal_positions(all_joints, current_positions, action) ==
    [k \in {Key(all_joints[i].name) : i \in DOMAIN all_joints} |->
        LET i == CHOOSE i \in DOMAIN all_joints : Key(all_joints[i].name) = k
        IN  clipped_value(all_joints[i], current_positions[i], action[i])]

\* line 61: the shape an action must have
ActionShape == 6

\* lines 50-94, the whole call; sent_ok is whether robot.send_action succeeds
\* (its exception is caught and logged at lines 93-94)
ApplyAction(action, sent_ok) ==
    LET all_joints == config.robot.all_joints
        seen == get_observation(all_joints, hw)
        done(status, current, sent) ==
            [op |-> "apply_action", status |-> status, action |-> action,
             current |-> current, sent |-> sent]
    IN
    /\ IF Len(action) # ActionShape
       THEN /\ call' = done("ValueError", <<>>, <<>>)
            /\ hw' = hw
       ELSE IF ~is_connected
       THEN /\ call' = done("skipped", <<>>, <<>>)
            /\ hw' = hw
       ELSE IF seen.error # "none"
       THEN /\ call' = done(seen.error, <<>>, <<>>)
            /\ hw' = hw
       ELSE IF Len(all_joints) > Len(action)
       THEN /\ call' = done("IndexError", seen.value, <<>>)
            /\ hw' = hw
       ELSE LET goal == goal_positions(all_joints, seen.value, action) IN
            /\ call' = done(IF sent_ok THEN "ok" ELSE "ok_send_failed",
                            seen.value, <<goal>>)
            /\ hw' = IF sent_ok THEN Moved(hw, goal) ELSE hw
    /\ UNCHANGED <<config, is_connected, homed>>
    /\ UNCHANGED <<fbvars, cfvars, mnvars, clvars>>

\* actions a policy may return: their components, and the vectors drawn (the
\* same component for every joint, or two alternating; one vector too short
\* and one too long)
ActionVals == {-2, -1, 0, 1}
ActionVectors ==
    { [i \in 1..ActionShape |-> a] : a \in ActionVals }
    \cup { [i \in 1..ActionShape |-> IF i % 2 = 1 THEN 1 ELSE -1] }
    \cup { [i \in 1..(ActionShape - 1) |-> 0], [i \in 1..(ActionShape + 1) |-> 0] }

-----------------------------------------------------------------------------
(* main: leopenpi/main.py *)

\* lines 16-21: the home action, one entry per joint up to the first without a home
home_action(joints) ==
    LET upto == IF \E i \in DOMAIN joints : joints[i].home = <<>>
                THEN (CHOOSE i \in DOMAIN joints :
                        /\ joints[i].home = <<>>
                        /\ \A k \in 1..(i - 1) : joints[k].home # <<>>) - 1
                ELSE Len(joints)
    IN  [k \in {Key(joints[i].name) : i \in 1..upto} |->
            LET i == CHOOSE i \in 1..upto : Key(joints[i].name) = k
            IN  joints[i].home[1]]

\* a faulty home block that sends what it has gathered when a joint has no home
HomeCommandPartial ==
    /\ is_connected
    /\ ~homed
    /\ homed' = TRUE
    /\ IF config.start_home
       THEN /\ call' = [NoCall EXCEPT !.op = "home", !.status = "ok",
                                      !.sent = <<home_action(config.robot.joints)>>]
            /\ hw' = Moved(hw, home_action(config.robot.joints))
       ELSE /\ call' = [NoCall EXCEPT !.op = "home", !.status = "not_sent"]
            /\ hw' = hw
    /\ UNCHANGED <<config, is_connected>>
    /\ UNCHANGED <<fbvars, cfvars, mnvars, clvars>>

\* lines 15-24, after robot.connect(): the start-of-run home command
HomeCommand ==
    /\ is_connected
    /\ ~homed
    /\ homed' = TRUE
    /\ LET joints == config.robot.joints
           all_homed == \A i \in DOMAIN joints : joints[i].home # <<>>
       IN  IF config.start_home /\ all_homed
           THEN /\ call' = [NoCall EXCEPT !.op = "home", !.status = "ok",
                                          !.sent = <<home_action(joints)>>]
                /\ hw' = Moved(hw, home_action(joints))
           ELSE /\ call' = [NoCall EXCEPT !.op = "home", !.status = "not_sent"]
                /\ hw' = hw
    /\ UNCHANGED <<config, is_connected>>
    /\ UNCHANGED <<fbvars, cfvars, mnvars, clvars>>

-----------------------------------------------------------------------------
(* The absolute action write of the JointSpaceMapper *)

\* write_absolute(action_vector, joint_order): each component clipped to its
\* joint's limits, by name
write_absolute(action_vector, joint_order) ==
    [k \in {Key(joint_order[i].name) : i \in DOMAIN joint_order} |->
        LET i == CHOOSE i \in DOMAIN joint_order : Key(joint_order[i].name) = k
        IN  clip(action_vector[i], joint_order[i].min_limit, joint_order[i].max_limit)]

\* one absolute action written and dispatched
WriteAbsolute(action) ==
    LET joint_order == config.robot.all_joints IN
    /\ is_connected
    /\ IF Len(action) # Len(joint_order)
       THEN /\ call' = [NoCall EXCEPT !.op = "write_absolute",
                                      !.status = "ShapeMismatch", !.action = action]
            /\ hw' = hw
       ELSE LET goal == write_absolute(action, joint_order) IN
            /\ call' = [NoCall EXCEPT !.op = "write_absolute", !.status = "ok",
                                      !.action = action, !.sent = <<goal>>]
            /\ hw' = Moved(hw, goal)
    /\ UNCHANGED <<config, is_connected, homed>>
    /\ UNCHANGED <<fbvars, cfvars, mnvars, clvars>>

-----------------------------------------------------------------------------
(* The robot wrapper with its callers *)

NextRW ==
    \/ Connect
    \/ Disconnect
    \/ HomeCommand
    \/ \E action \in ActionVectors, sent_ok \in BOOLEAN : ApplyAction(action, sent_ok)
    \/ \E action \in ActionVectors : WriteAbsolute(action)

\* a robot wrapper made for any joint ordering, and its callers
InitJoints ==
    /\ config \in { [robot |-> r, start_home |-> FALSE] : r \in JointOrderings }
    /\ is_connected = FALSE
    /\ hw \in RawMaps(config.robot)
    /\ homed = FALSE
    /\ call = NoCall

\* action vectors of the lengths of the joint orderings, and of length 6: the
\* same component for every joint, or 1 and 0 in turn
ActionLengths == {Len(r.all_joints) : r \in JointOrderings} \cup {ActionShape}
AnyActionVectors ==
    { [i \in 1..n |-> a] : n \in ActionLengths, a \in {0, 1} }
    \cup { [i \in 1..n |-> i % 2] : n \in ActionLengths }

NextJoints ==
    \/ Connect
    \/ Disconnect
    \/ GetJointObservation
    \/ GetGripperObservation
    \/ \E action \in AnyActionVectors, sent_ok \in BOOLEAN : ApplyAction(action, sent_ok)

-----------------------------------------------------------------------------
(* RobotEnvironment: leopenpi/robot_environment.py *)

\* the cameras a YAML file can name: any list of up to two Camera entries
CameraNames == {"image", "wrist_image", "state"}
NamedCameras == { [name |-> n, cam |-> Camera(FALSE, <<>>)] : n \in CameraNames }
CameraLists ==
    {<<>>} \cup { <<c>> : c \in NamedCameras } \cup { <<c, d>> : c, d \in NamedCameras }

\* lines 8-11: {camera.name: VideoHandler(camera=camera) for camera in cameras};
\* of two cameras of one name the dict keeps the later
RobotEnvironment(prompt, cameras) ==
    [prompt |-> prompt,
     cameras |-> cameras,
     video_handlers |->
        [n \in {cameras[i].name : i \in DOMAIN cameras} |->
            LET i == CHOOSE i \in DOMAIN cameras :
                        /\ cameras[i].name = n
                        /\ \A k \in DOMAIN cameras : cameras[k].name = n => k <= i
            IN  cameras[i].cam]]

InitEnv ==
    /\ HandlerAtRest
    /\ env \in { RobotEnvironment("pick up the cube", cameras) : cameras \in CameraLists }
    /\ observation = NoObservation

\* the key of an entry of the observation: "prompt", or f"observation/{name}"
PromptKey == <<"prompt">>
ObsKey(name) == <<"observation", name>>

\* lines 25-30: the dict display; of two entries of one key the later stays
get_env_observation(prompt, gripper, state, frames) ==
    LET named == { PromptKey, ObsKey("gripper_position"), ObsKey("state") }
        shown == { ObsKey(n) : n \in DOMAIN frames }
    IN  [k \in named \cup shown |->
            IF k \in shown
            THEN [kind |-> "frame",
                  value |-> frames[CHOOSE n \in DOMAIN frames : ObsKey(n) = k]]
            ELSE IF k = PromptKey THEN [kind |-> "text", value |-> prompt]
            ELSE IF k = ObsKey("gripper_position") THEN [kind |-> "vector", value |-> gripper]
            ELSE [kind |-> "vector", value |-> state]]

\* lines 24-30, the whole call; rd is what each handler's cap.read() gives
EnvGetObservation ==
    \E rd \in [DOMAIN env.video_handlers -> Reads] :
    LET gripper == get_observation(<<config.robot.gripper>>, hw)
        state == get_observation(config.robot.joints, hw)
        shots == [n \in DOMAIN env.video_handlers |->
                    capture_frame([cam |-> env.video_handlers[n], debug |-> FALSE], rd[n])]
    IN
    /\ observation' =
          IF ~is_connected THEN [status |-> "RuntimeError", obs |-> <<>>]
          ELSE IF gripper.error # "none" THEN [status |-> gripper.error, obs |-> <<>>]
          ELSE IF state.error # "none" THEN [status |-> state.error, obs |-> <<>>]
          ELSE IF \E n \in DOMAIN shots : shots[n].status # "ok"
          THEN [status |-> "RuntimeError", obs |-> <<>>]
          ELSE [status |-> "ok",
                obs |-> get_env_observation(env.prompt, gripper.value, state.value,
                                            [n \in DOMAIN shots |-> shots[n].frame[1]])]
    /\ UNCHANGED <<camera, reads, shot, env>>
    /\ UNCHANGED <<fbvars, rwvars, mnvars, clvars>>

NextEnv ==
    \/ Connect
    \/ Disconnect
    \/ EnvGetObservation

-----------------------------------------------------------------------------
(* Construction of a configuration *)

\* RobotConfiguration(port, joints=..., gripper=...) is constructed
Construct(joints, gripper) ==
    /\ config' = [robot |-> RobotConfiguration(joints, gripper),
                  start_home |-> config.start_home]
    /\ UNCHANGED <<is_connected, hw, homed, call>>
    /\ UNCHANGED <<fbvars, cfvars, mnvars, clvars>>

NextConfig ==
    \E joints \in AnyJointLists, gripper \in {<<>>} \cup { <<j>> : j \in AnyJoints } :
        Construct(joints, gripper)

-----------------------------------------------------------------------------
(* main: leopenpi/main.py, and src/main.py of the same structure *)

\* config.policy_type is any string of the configuration file, config.server_ip
\* a string or None (<<>>)
PolicyTypes == {"openpi", "teleop", "replay"}
ServerIps == {<<>>, <<"10.0.0.2">>}

\* main is not running
NoMain == [pc |-> "none", policy_type |-> "openpi", server_ip |-> <<>>,
           connected |-> FALSE, disconnect_called |-> FALSE, raised |-> FALSE]
MainAtRest == main = NoMain

\* main is entered with a parsed EnvironmentConfiguration
InitMain ==
    main \in { [NoMain EXCEPT !.pc = "connect", !.policy_type = t, !.server_ip = ip] :
                   t \in PolicyTypes, ip \in ServerIps }

\* lines 12-13: robot = RobotWrapper(...); robot.connect(), which may raise
MainConnect ==
    /\ main.pc = "connect"
    /\ \/ /\ is_connected' = TRUE
          /\ call' = [NoCall EXCEPT !.op = "connect", !.status = "ok"]
          /\ main' = [main EXCEPT !.pc = "home", !.connected = TRUE]
       \/ /\ is_connected' = FALSE
          /\ call' = [NoCall EXCEPT !.op = "connect", !.status = "error"]
          /\ main' = [main EXCEPT !.pc = "exit", !.raised = TRUE]
    /\ UNCHANGED <<config, hw, homed>>
    /\ UNCHANGED <<fbvars, cfvars, clvars>>

\* lines 15-24: the home block; robot.robot.send_action(home_action) may raise
MainHome ==
    /\ main.pc = "home"
    /\ homed' = TRUE
    /\ LET joints == config.robot.joints
           all_homed == \A i \in DOMAIN joints : joints[i].home # <<>>
       IN  IF config.start_home /\ all_homed
           THEN \/ /\ call' = [NoCall EXCEPT !.op = "home", !.status = "ok",
                                             !.sent = <<home_action(joints)>>]
                   /\ hw' = Moved(hw, home_action(joints))
                   /\ main' = [main EXCEPT !.pc = "environment"]
                \/ /\ call' = [NoCall EXCEPT !.op = "home", !.status = "error"]
                   /\ hw' = hw
                   /\ main' = [main EXCEPT !.pc = "exit", !.raised = TRUE]
           ELSE /\ call' = [NoCall EXCEPT !.op = "home", !.status = "not_sent"]
                /\ hw' = hw
                /\ main' = [main EXCEPT !.pc = "environment"]
    /\ UNCHANGED <<config, is_connected>>
    /\ UNCHANGED <<fbvars, cfvars, clvars>>

\* line 26: RobotEnvironment(...) makes a VideoHandler for every camera, and
\* VideoHandler.__init__ raises RuntimeError for a camera that does not open
MainEnvironment ==
    /\ main.pc = "environment"
    /\ \/ main' = [main EXCEPT !.pc = "policy"]
       \/ main' = [main EXCEPT !.pc = "exit", !.raised = TRUE]
    /\ UNCHANGED <<rwvars, fbvars, cfvars, clvars>>

\* lines 27-38: the policy is selected and constructed (a constructor that
\* opens a connection or a port may raise), then the agent and the runtime
MainPolicy ==
    /\ main.pc = "policy"
    /\ LET selected == \/ main.policy_type = "openpi" /\ main.server_ip # <<>>
                       \/ main.policy_type = "teleop"
       IN  \/ /\ selected
              /\ main' = [main EXCEPT !.pc = "run"]
           \/ main' = [main EXCEPT !.pc = "exit", !.raised = TRUE]
    /\ UNCHANGED <<rwvars, fbvars, cfvars, clvars>>

\* lines 40-41: runtime.run() returns or raises; either way the finally
\* clause is entered
MainRun ==
    /\ main.pc = "run"
    /\ \E raised \in BOOLEAN : main' = [main EXCEPT !.pc = "finally", !.raised = raised]
    /\ UNCHANGED <<rwvars, fbvars, cfvars, clvars>>

\* lines 42-43: robot.disconnect(), and main is left
MainFinally ==
    /\ main.pc = "finally"
    /\ IF is_connected
       THEN /\ is_connected' = FALSE
            /\ call' = [NoCall EXCEPT !.op = "disconnect", !.status = "ok"]
       ELSE /\ is_connected' = is_connected
            /\ call' = [NoCall EXCEPT !.op = "disconnect", !.status = "noop"]
    /\ main' = [main EXCEPT !.pc = "exit", !.disconnect_called = TRUE]
    /\ UNCHANGED <<config, hw, homed>>
    /\ UNCHANGED <<fbvars, cfvars, clvars>>

NextMain ==
    \/ MainConnect
    \/ MainHome
    \/ MainEnvironment
    \/ MainPolicy
    \/ MainRun
    \/ MainFinally

-----------------------------------------------------------------------------
(* JointLimitsCalibrator: scripts/calibrate.py *)

\* an entry of config_data['robot']: {'name': ..., 'min_limit': ..., 'max_limit': ...}
Limit(name, min_limit, max_limit) ==
    [name |-> name, min_limit |-> min_limit, max_limit |-> max_limit]

\* lines 91-108: limits of -1.0 and 1.0 for the five joints and the gripper
create_default_config ==
    [robot |-> [joints |-> << Limit("shoulder_pan", -2, 2),
                              Limit("shoulder_lift", -2, 2),
                              Limit("elbow_flex", -2, 2),
                              Limit("wrist_flex", -2, 2),
                              Limit("wrist_roll", -2, 2) >>,
                gripper |-> Limit("gripper", -2, 2)]]

\* lines 76-89: a configuration file gives any joints and any limits, an
\* upper limit under the lower one included
LoadedConfigs ==
    { [robot |-> [joints |-> << Limit("shoulder_pan", 0, 1),
                                Limit("wrist_roll", 2, -2) >>,
                  gripper |-> Limit("gripper", -1, 0)]] }

\* what robot.get_observation() reports while the arm is moved: every key of
\* the configuration, all but the first joint's or the gripper's, or none; one
\* position for every motor, or positions of alternating sign
CalibrationObservations(cd) ==
    LET all == {Key(j.name) : j \in Range(cd.robot.joints)} \cup {Key(cd.robot.gripper.name)}
    IN  { [k \in ks |-> IF alternate /\ Rank(k) % 2 = 0 THEN -p ELSE p] :
            ks \in { all, all \ {Key(cd.robot.joints[1].name)},
                     all \ {Key(cd.robot.gripper.name)}, {} },
            p \in (-MaxPos)..MaxPos,
            alternate \in BOOLEAN }

\* a faulty update that records a position under the lower limit as the upper
update_limit_swapped(joint_config, obs) ==
    LET joint_key == Key(joint_config.name) IN
    IF joint_key \in DOMAIN obs
    THEN LET current_pos == obs[joint_key]
             lowered == IF current_pos < joint_config.min_limit
                        THEN [joint_config EXCEPT !.max_limit = current_pos]
                        ELSE joint_config
         IN  IF current_pos > lowered.max_limit
             THEN [lowered EXCEPT !.max_limit = current_pos]
             ELSE lowered
    ELSE joint_config

\* lines 189-203 (and 206-221 for the gripper): the limits of one entry after
\* an observation
update_limit(joint_config, obs) ==
    LET joint_key == Key(joint_config.name) IN
    IF joint_key \in DOMAIN obs
    THEN LET current_pos == obs[joint_key]
             lowered == IF current_pos < joint_config.min_limit
                        THEN [joint_config EXCEPT !.min_limit = current_pos]
                        ELSE joint_config
         IN  IF current_pos > lowered.max_limit
             THEN [lowered EXCEPT !.max_limit = current_pos]
             ELSE lowered
    ELSE joint_config

\* lines 196-203: one of the two assignments of an entry is reached, and with
\* it self.limits_updated = True
assigns_limit(joint_config, obs) ==
    LET joint_key == Key(joint_config.name) IN
    /\ joint_key \in DOMAIN obs
    /\ \/ obs[joint_key] < joint_config.min_limit
       \/ obs[joint_key] > joint_config.max_limit

\* lines 185-221: config_data after _update_limits(obs)
update_limits(cd, obs) ==
    [robot |-> [joints |-> [i \in DOMAIN cd.robot.joints |->
                               update_limit(cd.robot.joints[i], obs)],
                gripper |-> update_limit(cd.robot.gripper, obs)]]

\* no calibrator is in use
CalibratorAtRest ==
    /\ config_data = create_default_config
    /\ limits_updated = FALSE
    /\ current_observation = <<>>

\* lines 51, 67, 71: __init__
InitCalibrator ==
    /\ config_data \in {create_default_config} \cup LoadedConfigs
    /\ limits_updated = FALSE
    /\ current_observation = <<>>

\* lines 153-155 of the teleoperation loop, under observation_lock: the
\* observation is stored and the limits are updated
TeleopStep ==
    /\ \E obs \in CalibrationObservations(config_data) :
        /\ current_observation' = <<obs>>
        /\ config_data' = update_limits(config_data, obs)
        /\ limits_updated' =
             (\/ limits_updated
              \/ \E j \in Range(config_data.robot.joints) : assigns_limit(j, obs)
              \/ assigns_limit(config_data.robot.gripper, obs))
    /\ UNCHANGED <<fbvars, cfvars, rwvars, mnvars>>

NextCalibrator == TeleopStep

\* the robot wrapper as constructed with the default configuration
RobotAtRest ==
    /\ config = [robot |-> RobotConfiguration(<<>>, <<>>), start_home |-> FALSE]
    /\ is_connected = FALSE
    /\ hw = [k \in {Key(j.name) : j \in Range(config.robot.all_joints)} |-> 0]
    /\ homed = FALSE
    /\ call = NoCall

-----------------------------------------------------------------------------
(* Specifications *)

\* a VideoHandler, its threads and its caller
InitVideo == InitFB /\ CameraAtRest /\ RobotAtRest /\ MainAtRest /\ CalibratorAtRest
SpecFB == InitVideo /\ [][NextFB]_vars

\* a RobotWrapper and its callers
InitRobot == InitFB /\ CameraAtRest /\ InitRW /\ MainAtRest /\ CalibratorAtRest
SpecRW == InitRobot /\ [][NextRW]_vars

\* a RobotWrapper made for any joint ordering
InitAnyRobot == InitFB /\ CameraAtRest /\ InitJoints /\ MainAtRest /\ CalibratorAtRest
SpecJoints == InitAnyRobot /\ [][NextJoints]_vars

\* main, entered with a parsed configuration
InitProgram == InitFB /\ CameraAtRest /\ InitRW /\ InitMain /\ CalibratorAtRest
SpecMain == InitProgram /\ [][NextMain]_vars

\* a JointLimitsCalibrator while the arm is teleoperated
InitCalibration == InitFB /\ CameraAtRest /\ RobotAtRest /\ MainAtRest /\ InitCalibrator
SpecCalibrator == InitCalibration /\ [][NextCalibrator]_vars

\* the configurations that can be constructed
SpecConfig == InitVideo /\ [][NextConfig]_vars

\* a RobotEnvironment over a RobotWrapper and on-demand VideoHandlers
InitEnvironment == InitFB /\ InitEnv /\ InitJoints /\ MainAtRest /\ CalibratorAtRest
SpecEnv == InitEnvironment /\ [][NextEnv]_vars

\* an on-demand VideoHandler and its caller
InitCamera == InitFB /\ InitCF /\ RobotAtRest /\ MainAtRest /\ CalibratorAtRest
SpecCF == InitCamera /\ [][NextCF]_vars

\* a VideoHandler, its threads, and a caller that writes into what it was given
SpecFBCaller == InitVideo /\ [][NextFBCaller]_vars

\* the VideoHandler under the scheduling the code relies on: a thread that
\* holds the lock finishes its list operation and releases it, and a caller
\* waiting for the lock gets it once it is free often enough.  Nothing makes a
\* device read return.
FairFB ==
    /\ SF_vars(GetAcquire)
    /\ WF_vars(GetReturn)
    /\ WF_vars(\E t \in ThreadIds : CaptureAppend(t))
    /\ WF_vars(\E t \in ThreadIds : CleanupPass(t))
SpecFBLive == InitVideo /\ [][NextFB]_vars /\ FairFB

\* the VideoHandler when its caller and its threads keep running: a stop call
\* under way takes its next step, and some thread that can take a step of its
\* loop takes one.  Nothing makes a device read return.
StopStep == StopJoinCapture \/ StopJoinCleanup \/ StopRelease \/ StopClear
ThreadStep ==
    \E t \in ThreadIds :
        \/ CaptureCheck(t) \/ CaptureReadCall(t) \/ CaptureContinue(t)
        \/ CaptureAcquire(t) \/ CaptureAppend(t)
        \/ CleanupCheck(t) \/ CleanupAcquire(t) \/ CleanupPass(t)
FairStop == WF_vars(StopStep) /\ WF_vars(ThreadStep)
SpecFBStop == InitVideo /\ [][NextFB]_vars /\ FairStop

-----------------------------------------------------------------------------
(* Claims about the VideoHandler *)

\* a get_frames call returns in this step
GetReturns == fg = "get_cs" /\ fg' = "idle"
\* a cleanup thread ends a pass in this step
PassEnds == \E t \in ThreadIds : IsCleanup(t) /\ tpc[t] = "cs" /\ tpc'[t] = "check"
Last(seq) == seq[Len(seq)]

\* C1: get_frames(n) returns nothing or exactly n frames, for every n >= 0,
\* and nothing when fewer than n frames were appended since the last start.
C1_EmptyOrExactlyN ==
    [][GetReturns =>
          /\ Len(ret'.frames) \in {0, fg_n}
          /\ (since_start < fg_n => ret'.frames = <<>>)]_vars

C6_BufferIsRun ==
    \A i \in 1..Len(frame_buffer) :
        frame_buffer[i] = produced - Len(frame_buffer) + i
\* C6: the buffer is always a gap-free, duplicate-free run of the appended
\* frames, in their order, ending at the newest one; and of two successive
\* get_frames calls that return frames the later one's newest frame is not older.
C6_OrderedAndMonotonic ==
    /\ []C6_BufferIsRun
    /\ [][(GetReturns /\ ret.op = "get_frames" /\ ret.frames # <<>>
                      /\ ret'.frames # <<>>)
            => Last(ret'.frames) >= Last(ret.frames)]_vars

\* frames were evicted, and a call has returned the two newest
C6_Witness ==
    /\ frame_buffer # <<>>
    /\ frame_buffer[1] > 1
    /\ ret.op = "get_frames"
    /\ Len(ret.frames) = 2
    /\ Last(ret.frames) = MaxFrames

\* C7: with at least n >= 1 frames buffered, get_frames(n) returns the n last
\* appended frames, oldest first.
C7_NewestN ==
    [][(GetReturns /\ fg_n >= 1 /\ Len(frame_buffer) >= fg_n) =>
          /\ Len(ret'.frames) = fg_n
          /\ Last(ret'.frames) = Last(frame_buffer)
          /\ \A i \in 1..fg_n :
                ret'.frames[i] = frame_buffer[Len(frame_buffer) - fg_n + i]
          /\ \A i \in 1..(fg_n - 1) : ret'.frames[i + 1] = ret'.frames[i] + 1]_vars

\* a call returned 2 frames out of 3 buffered
C7_Witness ==
    /\ ret.op = "get_frames"
    /\ ret.n = 2
    /\ ret.frames = <<2, 3>>
    /\ frame_buffer = <<1, 2, 3>>

\* who is inside a `with self._lock` block
InCriticalSection ==
    {t \in ThreadIds : tpc[t] = "cs"} \cup (IF fg = "get_cs" THEN {Foreground} ELSE {})
\* C8: whoever is inside a `with self._lock` block holds the lock, at most one
\* is inside at a time, and a capture thread at its device read or in the
\* transform does not hold it.
C8_MutualExclusion ==
    /\ Cardinality(InCriticalSection) <= 1
    /\ InCriticalSection = lock
    /\ \A t \in ThreadIds :
          (IsCapture(t) /\ tpc[t] \in {"at_read", "reading", "transform"}) => t \notin lock

\* a capture thread is inside its device read while get_frames holds the lock
C8_Witness ==
    /\ fg = "get_cs"
    /\ lock = {Foreground}
    /\ \E t \in ThreadIds : IsCapture(t) /\ tpc[t] = "reading"
    /\ \E t \in ThreadIds : IsCleanup(t) /\ tpc[t] = "sleep"

\* C9: a get_frames call that has been made returns, whatever the device
\* read of a capture thread does.
C9_GetReturnsEventually == (fg = "get_wait") ~> (fg = "idle")

\* a call has returned nothing while the capture thread is still inside its
\* first device read
C9_Witness ==
    /\ fg = "idle"
    /\ ret.op = "get_frames"
    /\ ret.n = 1
    /\ ret.frames = <<>>
    /\ produced = 0
    /\ \E t \in ThreadIds : IsCapture(t) /\ tpc[t] = "reading"

\* steps by which a stop call starts, and returns
StopPcs == {"stop_join_capture", "stop_join_cleanup", "stop_release", "stop_clear"}
StopReturns == fg' = "idle" /\ ret'.op = "stop" /\ (fg = "stop_clear" \/ ret' # ret)
StopStarts == fg = "idle" /\ (fg' \in StopPcs \/ (ret'.op = "stop" /\ ret' # ret))
\* C10: when stop returns the handler is not capturing and holds no open
\* device; a stop of a handler that is not capturing (a repeated stop, or one
\* before any start) changes nothing and raises nothing.
C10_StopSafe ==
    [][/\ StopReturns =>
            /\ ~capture_active'
            /\ \A h \in Handles : dev'[h] # "open"
            /\ ret'.status \in {"ok", "noop"}
       /\ (StopStarts /\ ~capture_active) =>
            /\ ret'.status = "noop"
            /\ UNCHANGED <<frame_buffer, capture_thread, cleanup_thread,
                           capture_active, cap, lock, dev, tpc, th, fg, fg_n,
                           produced, since_start>>]_vars

\* a second stop in a row, after a run that captured frames
C10_Witness ==
    /\ ret.op = "stop"
    /\ ret.status = "noop"
    /\ produced > 0
    /\ cap = 0
    /\ \E h \in Handles : dev[h] = "released"

\* C11: a stop call that has cleared the flag returns, with the device handle
\* released and forgotten, also when a capture thread stays inside its device
\* read for ever.
C11_StopTerminates ==
    (fg = "stop_join_capture") ~>
        (/\ fg = "idle"
         /\ ret.op = "stop"
         /\ ret.status = "ok"
         /\ cap = 0
         /\ \A h \in Handles : dev[h] # "open")

\* stop has returned while the capture thread is still inside a read of the
\* handle that stop released
C11_Witness ==
    /\ fg = "idle"
    /\ ret.op = "stop"
    /\ ret.status = "ok"
    /\ capture_thread # 0
    /\ tpc[capture_thread] = "reading"
    /\ dev[th[capture_thread]] = "released"

\* C27: no capture thread is inside a device read of a handle that stop has
\* released: the handle is released only after the last read of it has ended.
C27_ReleaseAfterLastRead ==
    \A t \in ThreadIds :
        (IsCapture(t) /\ tpc[t] = "reading") => dev[th[t]] # "released"

\* the threads of the handler that have been started and have not ended
Alive == {t \in ThreadIds : tpc[t] \notin Dead \cup {"none"}}
\* C28: at most one capture thread and at most one cleanup thread of the
\* handler are alive, after any sequence of start and stop calls.
C28_OneProducerOneReaper ==
    /\ Cardinality({t \in Alive : IsCapture(t)}) <= 1
    /\ Cardinality({t \in Alive : IsCleanup(t)}) <= 1

\* a start call is made in this step
StartStarts == fg = "idle" /\ (fg' = "start_warm" \/ (ret'.op = "start" /\ ret' # ret))
\* C12: a start call on a handler that is capturing returns at once without an
\* error; it opens no device, starts no thread and leaves the buffer as it is.
C12_StartIdempotent ==
    [][(StartStarts /\ capture_active) =>
          /\ ret'.status = "noop"
          /\ fg' = "idle"
          /\ UNCHANGED <<frame_buffer, capture_thread, cleanup_thread,
                         capture_active, cap, lock, dev, tpc, th, produced,
                         since_start>>]_vars

\* a second start has returned on a handler that is capturing and holds frames
C12_Witness ==
    /\ ret.op = "start"
    /\ ret.status = "noop"
    /\ capture_active
    /\ frame_buffer # <<>>
    /\ Cardinality(Opened) = 1

\* C13: a start call whose device does not open raises at once and leaves the
\* handler not capturing, with no thread started and the buffer as it was; no
\* thread ever runs for a device that did not open.
C13_OpenFailureIsSynchronous ==
    /\ [][(StartStarts /\ \E h \in Handles : dev[h] = "unused" /\ dev'[h] = "closed") =>
             /\ ret'.status = "error"
             /\ fg' = "idle"
             /\ ~capture_active'
             /\ UNCHANGED <<frame_buffer, capture_thread, cleanup_thread, lock,
                            tpc, th, produced, since_start>>]_vars
    /\ [](\A h \in Handles :
             dev[h] = "closed" => tpc[2 * h - 1] = "none" /\ tpc[2 * h] = "none")
    /\ []((ret.op = "start" /\ ret.status = "error") => ~capture_active)

\* a start has failed on a handler that captured frames in an earlier run
C13_Witness ==
    /\ fg = "idle"
    /\ ret.op = "start"
    /\ ret.status = "error"
    /\ cap # 0
    /\ dev[cap] = "closed"
    /\ produced > 0

\* C14: a device read that fails in the capture loop appends nothing and does
\* not end the thread: the loop goes back to its test and, while capture_active
\* is set, to the next read; a read that succeeds is followed by the append of
\* exactly one frame.
C14_ReadFailureRecovered ==
    [][\A t \in ThreadIds :
          /\ (tpc[t] = "reading" /\ tpc'[t] = "failed") =>
                UNCHANGED <<frame_buffer, produced, capture_active>>
          /\ (tpc[t] = "failed" /\ tpc'[t] # "failed") =>
                /\ tpc'[t] = "check"
                /\ UNCHANGED <<frame_buffer, produced>>
          /\ (IsCapture(t) /\ tpc[t] = "check" /\ tpc'[t] # "check" /\ capture_active) =>
                tpc'[t] = "at_read"
          /\ (tpc[t] = "reading" /\ tpc'[t] \notin {"reading", "failed"}) =>
                tpc'[t] = "transform"
          /\ (IsCapture(t) /\ tpc[t] = "transform" /\ tpc'[t] # "transform") =>
                tpc'[t] = "cs" /\ frame_buffer' = frame_buffer
          /\ (IsCapture(t) /\ tpc[t] = "cs" /\ tpc'[t] # "cs") =>
                /\ tpc'[t] = "check"
                /\ Len(frame_buffer') = Len(frame_buffer) + 1
                /\ SubSeq(frame_buffer', 1, Len(frame_buffer)) = frame_buffer]_vars

\* a read has failed on an open device, in a run that has captured a frame
\* before and whose flag is still set
C14_Witness ==
    /\ capture_active
    /\ capture_thread # 0
    /\ tpc[capture_thread] = "failed"
    /\ dev[cap] = "open"
    /\ since_start > 0
    /\ produced < MaxFrames

\* C15: whatever the caller writes into the frames get_frames returned to it,
\* every frame held in the buffer, and so every frame a later get_frames
\* returns, has the content it was captured with.
C15_ReturnedFramesAreCopies ==
    \A i \in DOMAIN frame_buffer : pixels[frame_buffer[i]] = "captured"

-----------------------------------------------------------------------------
(* Claims about the on-demand VideoHandler *)

\* C16: a capture_frame call makes one device read and leaves the frame buffer
\* alone; it either returns one frame, transformed (RGB, mirrored and cropped
\* as the camera says, resized, channels first), or raises and returns no frame.
C16_CaptureOne ==
    [][reads' # reads =>
          /\ reads' = reads + 1
          /\ UNCHANGED <<frame_buffer, pixels, produced>>
          /\ shot'.status \in {"ok", "RuntimeError"}
          /\ shot'.status = "RuntimeError" => shot'.frame = <<>>
          /\ shot'.status = "ok" =>
                /\ Len(shot'.frame) = 1
                /\ shot'.frame[1].id \in RawFrames
                /\ shot'.frame[1].channels = <<"R", "G", "B">>
                /\ shot'.frame[1].axes = <<"C", "H", "W">>
                /\ shot'.frame[1].size = "target"
                /\ shot'.frame[1].mirrored = camera.cam.flipped
                /\ shot'.frame[1].box = camera.cam.box]_vars

\* a call has raised after earlier calls, on a camera that mirrors and crops
C16_Witness ==
    /\ shot.status = "RuntimeError"
    /\ shot.frame = <<>>
    /\ reads > WarmupReads + 1
    /\ camera.cam.flipped
    /\ crop_enabled(camera.cam)

-----------------------------------------------------------------------------
(* Claims about the RobotWrapper and main *)

InLimits(joint, v) == joint.min_limit <= v /\ v <= joint.max_limit

\* C2: every command dispatched to the hardware (the home command and every
\* action) holds, for every joint it names, a value inside the joint's limits.
C2_DispatchedWithinLimits ==
    \A n \in DOMAIN call.sent :
        \A j \in Range(config.robot.all_joints) :
            Key(j.name) \in DOMAIN call.sent[n] => InLimits(j, call.sent[n][Key(j.name)])

\* the last call was an apply_action that read the positions of all joints
Applied ==
    /\ call.op = "apply_action"
    /\ call.current # <<>>
    /\ Len(call.action) >= Len(config.robot.all_joints)
C3_Requested(i) ==
    LET j == config.robot.all_joints[i] IN
    call.current[i] + (call.action[i] * (j.max_limit - j.min_limit)) \div 4
\* C3: a delta action sends, for every joint, current + action * range * 0.25
\* clipped to the joint's limits, exactly once, also when the clip changes it.
C3_DeltaClipped ==
    /\ Applied =>
        /\ call.status \in {"ok", "ok_send_failed"}
        /\ Len(call.sent) = 1
        /\ DOMAIN call.sent[1] = {Key(j.name) : j \in Range(config.robot.all_joints)}
        /\ \A i \in DOMAIN config.robot.all_joints :
              LET j == config.robot.all_joints[i]
                  requested == C3_Requested(i)
              IN  call.sent[1][Key(j.name)] =
                      IF requested < j.min_limit THEN j.min_limit
                      ELSE IF requested > j.max_limit THEN j.max_limit
                      ELSE requested
    \* limits [-1, 1], current 0.5, action 1.0 give 1.0 (in half units)
    /\ (/\ Applied
        /\ config.robot.all_joints[1].min_limit = -2
        /\ config.robot.all_joints[1].max_limit = 2
        /\ call.current[1] = 1
        /\ call.action[1] = 1) => call.sent[1][Key("shoulder_pan")] = 2

\* an action was sent whose requested value the clip changed for one joint and
\* left alone for another
C3_Witness ==
    /\ Applied
    /\ Len(call.sent) = 1
    /\ \E i \in DOMAIN config.robot.all_joints :
          C3_Requested(i) > config.robot.all_joints[i].max_limit
    /\ \E i \in DOMAIN config.robot.all_joints :
          InLimits(config.robot.all_joints[i], C3_Requested(i))

ReadOps == {"get_joint_observation", "get_gripper_observation"}
ReadJoints ==
    IF call.op = "get_joint_observation" THEN config.robot.joints
    ELSE <<config.robot.gripper>>
Missing(joints) == {i \in DOMAIN joints : Key(joints[i].name) \notin DOMAIN hw}

\* C17: a read for N joints from a map that holds all their keys returns a
\* vector of length N whose i-th element is the value the map holds under the
\* i-th joint's name, whatever other keys the map holds.
C17_ReadInOrder ==
    call.op \in ReadOps =>
        /\ (Missing(ReadJoints) = {} /\ call.status # "RuntimeError") => call.status = "ok"
        /\ call.status = "ok" =>
              /\ Len(call.current) = Len(ReadJoints)
              /\ \A i \in DOMAIN ReadJoints :
                    call.current[i] = hw[Key(ReadJoints[i].name)]

\* C18: a read for joints of which the map lacks a key raises and returns no
\* vector; an apply_action whose read raises sends nothing.
C18_MissingKeyRaises ==
    /\ (call.op \in ReadOps /\ Missing(ReadJoints) # {}) =>
          /\ call.status \in {"ValueError", "RuntimeError"}
          /\ call.current = <<>>
    /\ (call.op = "apply_action" /\ Missing(config.robot.all_joints) # {}) =>
          /\ call.status \in {"ValueError", "skipped"}
          /\ call.current = <<>>
          /\ call.sent = <<>>

\* a connected wrapper's apply_action of six components has raised for a map
\* without the gripper's key
C18_Witness ==
    /\ is_connected
    /\ call.op = "apply_action"
    /\ call.status = "ValueError"
    /\ Len(call.action) = ActionShape
    /\ Len(config.robot.all_joints) = ActionShape
    /\ Key(config.robot.gripper.name) \notin DOMAIN hw

\* C19: an apply_action raises for the shape of its action exactly when the
\* action's length is not the number of joints of the configuration, and then
\* reads nothing and sends nothing.
C19_ShapeMismatch ==
    call.op = "apply_action" =>
        /\ Len(call.action) # Len(config.robot.all_joints) =>
              /\ call.status = "ValueError"
              /\ call.current = <<>>
              /\ call.sent = <<>>
        /\ (Len(call.action) = Len(config.robot.all_joints)
              /\ Missing(config.robot.all_joints) = {}) => call.status # "ValueError"

\* C20: an action of zeros sends, for every joint, the position read for it
\* clamped to the joint's limits: the position itself when inside them.
C20_ZeroDelta ==
    (Applied /\ \A i \in DOMAIN call.action : call.action[i] = 0) =>
        /\ Len(call.sent) = 1
        /\ \A i \in DOMAIN config.robot.all_joints :
              LET j == config.robot.all_joints[i]
                  cur == call.current[i]
                  sent == call.sent[1][Key(j.name)]
              IN  /\ sent = (IF cur < j.min_limit THEN j.min_limit
                             ELSE IF cur > j.max_limit THEN j.max_limit ELSE cur)
                  /\ InLimits(j, cur) => sent = cur

\* an action of zeros was sent with one joint outside its limits and one inside
C20_Witness ==
    /\ Applied
    /\ \A i \in DOMAIN call.action : call.action[i] = 0
    /\ Len(call.sent) = 1
    /\ \E i \in DOMAIN config.robot.all_joints :
          ~InLimits(config.robot.all_joints[i], call.current[i])
    /\ \E i \in DOMAIN config.robot.all_joints :
          InLimits(config.robot.all_joints[i], call.current[i])

\* C21: an apply_action whose robot.send_action raises does not return
\* normally: its caller sees the failure.
C21_SendFailureSurfaces ==
    call.op = "apply_action" => call.status # "ok_send_failed"

\* C25: main sends a home command exactly when start_home is set and every
\* joint of config.robot.joints has a home; it sends it once, with one entry
\* for each of these joints, the joint's home; otherwise it sends nothing.
C25_HomeAllOrNothing ==
    /\ [](call.op = "home" =>
            LET joints == config.robot.joints
                all_homed == \A i \in DOMAIN joints : joints[i].home # <<>>
            IN  /\ call.status = "ok" <=> (config.start_home /\ all_homed)
                /\ call.status # "ok" => call.sent = <<>>
                /\ call.status = "ok" =>
                      /\ Len(call.sent) = 1
                      /\ DOMAIN call.sent[1] = {Key(joints[i].name) : i \in DOMAIN joints}
                      /\ \A i \in DOMAIN joints :
                            call.sent[1][Key(joints[i].name)] = joints[i].home[1])
    /\ [][(call'.op = "home" /\ call' # call) => (~homed /\ homed')]_vars
    /\ [][homed => homed']_vars

\* the home command was sent for joints that all have a home
C25_Witness ==
    /\ call.op = "home"
    /\ call.status = "ok"
    /\ homed
    /\ config.robot.joints = CalibratedJoints
    /\ hw[Key("wrist_roll")] = 3

\* a call of the wrapper is made in this step
WrapperCall(op) == call'.op = op /\ call' # call
-----------------------------------------------------------------------------
(* Claims about main *)

\* C29: whenever main has exited after robot.connect() succeeded, by a return
\* or by an exception raised anywhere after the connect, robot.disconnect()
\* has been called.
C29_DisconnectOnEveryExit ==
    (main.pc = "exit" /\ main.connected) => main.disconnect_called

-----------------------------------------------------------------------------
(* Claims about the JointLimitsCalibrator *)

\* the entries of the configuration: the joints, then the gripper
Limits(cd) == cd.robot.joints \o <<cd.robot.gripper>>
\* C30: over any sequence of observations, for every joint and the gripper,
\* min_limit never increases and max_limit never decreases, min_limit <=
\* max_limit is preserved, the position just observed lies within the recorded
\* limits, an entry whose key the observation lacks keeps its limits, and
\* limits_updated is true exactly when some limit has been changed.
C30_LimitsTrackObservations ==
    /\ [][current_observation' # <<>> =>
            \A i \in DOMAIN Limits(config_data) :
                LET old == Limits(config_data)[i]
                    new == Limits(config_data')[i]
                    key == Key(old.name)
                    obs == current_observation'[1]
                IN  /\ new.name = old.name
                    /\ new.min_limit <= old.min_limit
                    /\ new.max_limit >= old.max_limit
                    /\ old.min_limit <= old.max_limit => new.min_limit <= new.max_limit
                    /\ key \in DOMAIN obs =>
                          (new.min_limit <= obs[key] /\ obs[key] <= new.max_limit)
                    /\ key \notin DOMAIN obs => new = old]_vars
    /\ ~limits_updated
    /\ [][limits_updated' <=> (limits_updated \/ config_data' # config_data)]_vars

\* a joint has been moved past both of its limits, and the last observation
\* lacked the gripper's key
C30_Witness ==
    /\ limits_updated
    /\ current_observation # <<>>
    /\ Key(config_data.robot.gripper.name) \notin DOMAIN current_observation[1]
    /\ DOMAIN current_observation[1] # {}
    /\ \E j \in Range(config_data.robot.joints) :
          j.min_limit = -MaxPos /\ j.max_limit = MaxPos

-----------------------------------------------------------------------------
(* Claims about the configuration *)

\* C22: every RobotConfiguration that exists has joints (the gripper among
\* them) of different names, each with min_limit <= max_limit.
C22_ValidJointSets ==
    LET all_joints == config.robot.all_joints IN
    /\ \A i, k \in DOMAIN all_joints :
          i # k => all_joints[i].name # all_joints[k].name
    /\ \A i \in DOMAIN all_joints :
          all_joints[i].min_limit <= all_joints[i].max_limit

\* an apply_action call is made in this step, and reads the positions
AppliesAction ==
    /\ call'.op = "apply_action"
    /\ call'.current # <<>>
    /\ (call' # call \/ hw' # hw)
\* C23: all_joints is the joints in their configured order followed by the
\* gripper, and apply_action takes the i-th position it reads and the i-th
\* component of the action for the i-th joint of all_joints.
C23_AllJointsOrder ==
    /\ [](/\ config.robot.all_joints = config.robot.joints \o <<config.robot.gripper>>
          /\ Len(config.robot.all_joints) = Len(config.robot.joints) + 1
          /\ Last(config.robot.all_joints) = config.robot.gripper)
    /\ [][AppliesAction =>
            \A i \in DOMAIN config.robot.all_joints :
                LET j == config.robot.all_joints[i] IN
                /\ call'.current[i] = float32(hw[Key(j.name)])
                /\ call'.sent # <<>> =>
                      call'.sent[1][Key(j.name)] =
                          clip(call'.current[i]
                                 + (call'.action[i] * (j.max_limit - j.min_limit)) \div 4,
                               j.min_limit, j.max_limit)]_vars

\* an action whose components differ was applied to joints configured in
\* another order than the motors', at positions that differ
C23_Witness ==
    /\ call.op = "apply_action"
    /\ call.sent # <<>>
    /\ config.robot.joints = ShortJoints
    /\ call.action[1] # call.action[2]
    /\ call.current[1] # call.current[2]
    /\ call.sent[1][Key("wrist_roll")] # call.sent[1][Key("shoulder_pan")]

-----------------------------------------------------------------------------
(* Claims about the RobotEnvironment *)

\* C24: an observation get_observation returns, for cameras of different names,
\* holds the prompt, the gripper's position vector of length 1, the joints'
\* position vector, and one frame for every configured camera and no other.
C24_ObservationComplete ==
    LET obs == observation.obs
        cameras == env.cameras
    IN
    (/\ observation.status = "ok"
     /\ \A i, k \in DOMAIN cameras : i # k => cameras[i].name # cameras[k].name) =>
        /\ PromptKey \in DOMAIN obs
        /\ obs[PromptKey].kind = "text"
        /\ obs[PromptKey].value = env.prompt
        /\ ObsKey("gripper_position") \in DOMAIN obs
        /\ obs[ObsKey("gripper_position")].kind = "vector"
        /\ Len(obs[ObsKey("gripper_position")].value) = 1
        /\ ObsKey("state") \in DOMAIN obs
        /\ obs[ObsKey("state")].kind = "vector"
        /\ Len(obs[ObsKey("state")].value) = Len(config.robot.joints)
        /\ \A i \in DOMAIN cameras :
              /\ ObsKey(cameras[i].name) \in DOMAIN obs
              /\ obs[ObsKey(cameras[i].name)].kind = "frame"
        /\ Cardinality({k \in DOMAIN obs : obs[k].kind = "frame"}) = Len(cameras)

=============================================================================
